---------------------------- MODULE Spec2Model ----------------------------
(***************************************************************************)
(* Model of the multi-threaded JSONL pipeline of misc_utils (src/src/fs.rs) *)
(*                                                                         *)
(*   parse_jsonl_multi_threaded(path, batchsize) -> MtJsonl                 *)
(*                                                                         *)
(* A pipeline has a reader thread, a parser thread and the consumer that   *)
(* owns the MtJsonl iterator.  The threads talk over two bounded channels  *)
(* (std::sync::mpsc::sync_channel(CHAN_BUFSIZE)):                           *)
(*   lines  : reader -> parser   (ProcessingStatus<String>)                 *)
(*   struct : parser -> iterator (ProcessingStatus<Vec<Result<T, Error>>>)  *)
(*                                                                         *)
(* The state of one pipeline is a record; pl[p] is the pipeline p.  Two     *)
(* pipelines over the same file are used for the statements that compare   *)
(* two runs.                                                               *)
(*                                                                         *)
(* The helpers of the crate that stand beside the pipeline have their own  *)
(* variables and specifications: Min<T> and Max<T> (src/src/minmax.rs,     *)
(* MinMaxSpec), the conversions of Compression into codec levels           *)
(* (ConvSpec) and fs::read_to_string (RtsSpec).                            *)
(***************************************************************************)
EXTENDS Integers, Sequences, FiniteSets, TLC

VARIABLES
    file,       \* the file at `path`: a sequence of lines, each a sequence of characters
    openOk,     \* whether file_open_read(path) succeeds
    readErrAt,  \* the number of the read_line call that fails (0: none fails)
    pipes,      \* the pipelines that were started
    pl,         \* pl[p]: the state of pipeline p
    mm,         \* a Min<T> and a Max<T> (src/src/minmax.rs) and what they were given
    conv,       \* a Compression value and the codec level it was converted into
    rd          \* one call of fs::read_to_string(path)

\* The state of the helpers that are not part of the pipeline.
utilVars == <<mm, conv, rd>>

vars == <<file, openOk, readErrAt, pipes, pl, mm, conv, rd>>

(***************************************************************************)
(* Bounds of the model.                                                    *)
(***************************************************************************)
MaxLines == 3        \* lines of the file, Spec
MaxBatch == 2        \* largest batchsize
PairMaxLines == 2    \* lines of the file, PairSpec

\* Channels that buffer one message more.
CHAN_BUFSIZE_OneMore == 2 + 1

\* const CHAN_BUFSIZE: usize = 2;
CHAN_BUFSIZE == 2

\* The iterator's yielded items are recorded up to this length; later
\* results are only visible in lastRet.  A file yields at most one item per
\* line, then at most one IoError, then its terminal answers.
OutCap == Len(file) + 3

\* The logs of sent messages and the counters of work done after a drop are
\* kept up to this length (a reader with batchsize >= 1 sends at most
\* Len(file) + 2 messages); with batchsize = 0 they stay at it.
LogCap == Len(file) + 3

(***************************************************************************)
(* Text.  A line is a sequence of characters and ends with a newline in    *)
(* the file.  The characters are a subset of JSON's: the brackets of       *)
(* (nested, at most one element) arrays and a character "x" that starts no *)
(* JSON value.                                                             *)
(***************************************************************************)
NL == "\n"

LineKinds ==
    { <<"[", "]">>,             \* the value []
      <<"[", "[", "]", "]">>,   \* the value [[]]
      <<"x">>,                  \* not JSON
      <<"[">> }                 \* an array left open at the end of the line

RECURSIVE SeqsUpTo(_, _)
SeqsUpTo(S, n) ==
    IF n = 0 THEN { <<>> }
    ELSE LET shorter == SeqsUpTo(S, n - 1)
         IN  shorter \cup { Append(s, x) : s \in { t \in shorter : Len(t) = n - 1 }, x \in S }

(***************************************************************************)
(* Results and messages.                                                   *)
(***************************************************************************)
Ok(v)            == [tag |-> "Ok", val |-> v]
ParsingError     == [tag |-> "ParsingError", val |-> 0]
IoErrorOpen      == [tag |-> "IoError", val |-> 1]   \* "Background reading thread cannot open file"
IoErrorRead      == [tag |-> "IoError", val |-> 2]   \* "Background reading thread cannot read line"
NotCompleted     == [tag |-> "NotCompleted", val |-> 0]
None             == [tag |-> "None", val |-> 0]
NoResult         == [tag |-> "-", val |-> 0]         \* next() was never called / has not returned

Data(b)          == [kind |-> "Data", body |-> b, err |-> NoResult]
Completed        == [kind |-> "Completed", body |-> <<>>, err |-> NoResult]
Error(e)         == [kind |-> "Error", body |-> <<>>, err |-> e]


(***************************************************************************)
(* The JSON stream decoder,                                                *)
(*   Deserializer::from_str(&*batch).into_iter().map(..).collect()         *)
(* over the text of a batch.  A value of the character subset is an array  *)
(* with no element or with one element; the decoded item is the depth of   *)
(* the nesting ([] is 1, [[]] is 2).  Whitespace (the newline) between     *)
(* values and inside arrays is skipped.  The stream ends at the end of the *)
(* text, and after the first error (serde_json's StreamDeserializer yields *)
(* nothing after an Err).                                                  *)
(*                                                                         *)
(* Scan reads the text from position i.  open holds one number for every   *)
(* array that is open at i, the innermost last: 0 while the array has no   *)
(* element yet, else the depth of its element.  acc holds the results of   *)
(* the values that ended before i.                                         *)
(***************************************************************************)
RECURSIVE Scan(_, _, _, _)
Scan(t, i, open, acc) ==
    IF i > Len(t)
    THEN IF open = <<>> THEN acc                     \* end of the stream
         ELSE Append(acc, ParsingError)              \* EOF while parsing a list
    ELSE IF t[i] = NL
    THEN Scan(t, i + 1, open, acc)
    ELSE IF t[i] = "["
    THEN IF open # <<>> /\ open[Len(open)] # 0
         THEN Append(acc, ParsingError)              \* expected `,` or `]`
         ELSE Scan(t, i + 1, Append(open, 0), acc)
    ELSE IF t[i] = "]" /\ open # <<>>
    THEN IF Len(open) = 1
         THEN Scan(t, i + 1, <<>>, Append(acc, Ok(open[1] + 1)))
         ELSE Scan(t, i + 1,
                   [SubSeq(open, 1, Len(open) - 1) EXCEPT ![Len(open) - 1] = open[Len(open)] + 1],
                   acc)
    ELSE Append(acc, ParsingError)                   \* expected value / expected `,` or `]`

Decode(batch) == Scan(batch, 1, <<>>, <<>>)

\* The text of one line as read_line appends it to the batch.
LineText(line) == line \o <<NL>>

\* The number of lines in the text of a batch.
LineCount(batch) == Cardinality({ i \in 1..Len(batch) : batch[i] = NL })

(***************************************************************************)
(* Channels: std::sync::mpsc::sync_channel(CHAN_BUFSIZE).  send blocks     *)
(* while the buffer is full and the receiver is alive, and fails when the  *)
(* receiver is gone; recv blocks while the buffer is empty and the sender  *)
(* is alive, and fails when the buffer is empty and the sender is gone.    *)
(***************************************************************************)
\* The log l of the messages sent on a channel, after m was sent.
Log(l, m) == IF Len(l) < LogCap THEN Append(l, m) ELSE l

\* A send that does not wait for room in the channel (try_send): on a full
\* channel it fails at once.
CanSend_NoWait(ch, rxAlive) == TRUE

\* A send that waits for room in the channel even when the receiver is gone.
CanSend_NeedsReceiver(ch, rxAlive) == rxAlive /\ Len(ch) < CHAN_BUFSIZE

CanSend(ch, rxAlive) == ~rxAlive \/ Len(ch) < CHAN_BUFSIZE
SendOk(ch, rxAlive)  == rxAlive /\ Len(ch) < CHAN_BUFSIZE

\* The receiver ends of the two channels, and the sender ends.
LinesReceiverAlive(s)  == s.ppc # "done"       \* lines_receiver lives in the parser thread
LinesSenderAlive(s)    == s.rpc # "done"       \* lines_sender lives in the reader thread
StructReceiverAlive(s) == s.cpc # "dropped"    \* struct_receiver lives in the MtJsonl
StructSenderAlive(s)   == s.ppc # "done"       \* struct_sender lives in the parser thread

(***************************************************************************)
(* The state of a pipeline right after parse_jsonl_multi_threaded returns: *)
(* both threads spawned, both channels empty, MtJsonl::new.                *)
(***************************************************************************)
NewPipeline(bs) ==
    [ batchsize |-> bs,
      \* reader thread
      rpc |-> "open", pos |-> 0, batch |-> <<>>, cnt |-> 0, is_eof |-> FALSE,
      rerr |-> NoResult,
      \* reader -> parser
      lines |-> <<>>, sentLines |-> <<>>,
      \* parser thread
      ppc |-> "recv", channel_successful_completed |-> FALSE, cur |-> Completed,
      \* parser -> iterator
      struct |-> <<>>, sentStruct |-> <<>>,
      \* MtJsonl
      cpc |-> "idle", tmp_state |-> <<>>, did_complete |-> FALSE,
      \* what the consumer saw
      out |-> <<>>, lastRet |-> NoResult,
      \* Data batches the reader sent and the iterator has not received yet
      \* (none once the iterator is dropped: they will never be received)
      inflight |-> 0,
      \* work done after the consumer dropped the iterator
      decodedAfterDrop |-> 0, readAfterDrop |-> 0 ]

Files(n) == SeqsUpTo(LineKinds, n)

\* A helper that is not used in a run.
Unused == [pc |-> "unused"]

InitWith(fileSet, ps) ==
    /\ file \in fileSet
    /\ openOk \in BOOLEAN
    /\ openOk = FALSE => file = <<>>
    /\ readErrAt \in 0..(Len(file) + 1)
    /\ openOk = FALSE => readErrAt = 0
    /\ pipes = ps
    /\ pl \in [ps -> { NewPipeline(bs) : bs \in 0..MaxBatch }]
    /\ mm = Unused /\ conv = Unused /\ rd = Unused

Init == InitWith(Files(MaxLines), {1})


(***************************************************************************)
(* The reader thread (fs.rs 640-704).                                      *)
(***************************************************************************)
\* Where `while !is_eof { let mut batch = String::new(); for _ in 0..batchsize`
\* goes on entry of the while body: into the for loop, or past it when the
\* range 0..batchsize is empty.
\* A reader that reads one line before it looks at batchsize.
LoopEntry_ReadFirst(s) == "read"

LoopEntry(s) == IF s.batchsize = 0 THEN "send" ELSE "read"

\* Lines the reader reads after the consumer dropped the iterator are counted.
ReadCount(s) ==
    IF s.cpc = "dropped" /\ s.readAfterDrop < LogCap THEN s.readAfterDrop + 1 ELSE s.readAfterDrop

\* let mut rdr = match file_open_read(&path) { Ok(..) => .., Err(err) => { send Error; return } }
ReaderOpen(p) ==
    LET s == pl[p] IN
    /\ s.rpc = "open"
    /\ pl' = [pl EXCEPT ![p] =
                IF openOk
                THEN [s EXCEPT !.rpc = LoopEntry(s)]
                ELSE [s EXCEPT !.rpc = "sendErr", !.rerr = IoErrorOpen]]
    /\ UNCHANGED <<file, openOk, readErrAt, pipes, utilVars>>

\* A reader that puts the line it read in front of the batch.
PushLine_InFront(batch, line) == LineText(line) \o batch

\* rdr.read_line(&mut batch) appends the line, its newline included, to the batch.
PushLine(batch, line) == batch \o LineText(line)

\* A reader that sends no batch when it finds the end of the file with no
\* line accumulated.
AfterReadLine_SkipEmpty(s) ==
    IF readErrAt = s.pos + 1
    THEN [s EXCEPT !.rpc = "sendErr", !.rerr = IoErrorRead]
    ELSE IF s.pos = Len(file)
    THEN [s EXCEPT !.is_eof = TRUE, !.rpc = IF s.batch = <<>> THEN "complete" ELSE "send"]
    ELSE [s EXCEPT !.batch = PushLine(s.batch, file[s.pos + 1]),
                   !.pos = s.pos + 1,
                   !.cnt = s.cnt + 1,
                   !.readAfterDrop = ReadCount(s),
                   !.rpc = IF s.cnt + 1 = s.batchsize THEN "send" ELSE "read"]

\* A reader that takes a failed read for the end of the file.
AfterReadLine_ErrorAsEof(s) ==
    IF readErrAt = s.pos + 1 \/ s.pos = Len(file)
    THEN [s EXCEPT !.is_eof = TRUE, !.rpc = "send"]
    ELSE [s EXCEPT !.batch = PushLine(s.batch, file[s.pos + 1]),
                   !.pos = s.pos + 1,
                   !.cnt = s.cnt + 1,
                   !.readAfterDrop = ReadCount(s),
                   !.rpc = IF s.cnt + 1 = s.batchsize THEN "send" ELSE "read"]

\* A reader whose inner loop runs once more than batchsize times.
AfterReadLine_OneMore(s) ==
    IF readErrAt = s.pos + 1
    THEN [s EXCEPT !.rpc = "sendErr", !.rerr = IoErrorRead]
    ELSE IF s.pos = Len(file)
    THEN [s EXCEPT !.is_eof = TRUE, !.rpc = "send"]
    ELSE [s EXCEPT !.batch = PushLine(s.batch, file[s.pos + 1]),
                   !.pos = s.pos + 1,
                   !.cnt = s.cnt + 1,
                   !.readAfterDrop = ReadCount(s),
                   !.rpc = IF s.cnt + 1 = s.batchsize + 1 THEN "send" ELSE "read"]

\* The state after one rdr.read_line(&mut batch) in the for loop.
AfterReadLine(s) ==
    IF readErrAt = s.pos + 1
    THEN \* Err(err) => { send Error(IoError{..}); return }
         [s EXCEPT !.rpc = "sendErr", !.rerr = IoErrorRead]
    ELSE IF s.pos = Len(file)
    THEN \* Ok(0) => { is_eof = true; break }
         [s EXCEPT !.is_eof = TRUE, !.rpc = "send"]
    ELSE \* Ok(_) => {}
         [s EXCEPT !.batch = PushLine(s.batch, file[s.pos + 1]),
                   !.pos = s.pos + 1,
                   !.cnt = s.cnt + 1,
                   !.readAfterDrop = ReadCount(s),
                   !.rpc = IF s.cnt + 1 = s.batchsize THEN "send" ELSE "read"]

ReaderReadLine(p) ==
    LET s == pl[p] IN
    /\ s.rpc = "read"
    /\ pl' = [pl EXCEPT ![p] = AfterReadLine(s)]
    /\ UNCHANGED <<file, openOk, readErrAt, pipes, utilVars>>

\* A reader that ends after its last Data without sending Completed.
AfterDataSent_NoCompleted(s) ==
    [s EXCEPT !.lines = Append(s.lines, Data(s.batch)),
              !.sentLines = Log(s.sentLines, Data(s.batch)),
              !.batch = <<>>,
              !.cnt = 0,
              !.inflight = IF s.cpc = "dropped" THEN 0 ELSE s.inflight + 1,
              !.rpc = IF s.is_eof THEN "done" ELSE LoopEntry(s)]

\* The state after lines_sender.send(ProcessingStatus::Data(batch)) succeeded.
AfterDataSent(s) ==
    [s EXCEPT !.lines = Append(s.lines, Data(s.batch)),
              !.sentLines = Log(s.sentLines, Data(s.batch)),
              !.batch = <<>>,
              !.cnt = 0,
              !.inflight = IF s.cpc = "dropped" THEN 0 ELSE s.inflight + 1,
              !.rpc = IF s.is_eof THEN "complete" ELSE LoopEntry(s)]

\* A reader that leaves its loop on a failed Data send and goes on to its
\* Completed send.
ReaderSendData_BreakOnError(p) ==
    LET s == pl[p] IN
    /\ s.rpc = "send"
    /\ CanSend(s.lines, LinesReceiverAlive(s))
    /\ pl' = [pl EXCEPT ![p] =
                IF SendOk(s.lines, LinesReceiverAlive(s))
                THEN AfterDataSent(s)
                ELSE [s EXCEPT !.rpc = "complete"]]
    /\ UNCHANGED <<file, openOk, readErrAt, pipes, utilVars>>

\* if lines_sender.send(ProcessingStatus::Data(batch)).is_err() { return; }
ReaderSendData(p) ==
    LET s == pl[p] IN
    /\ s.rpc = "send"
    /\ CanSend(s.lines, LinesReceiverAlive(s))
    /\ pl' = [pl EXCEPT ![p] =
                IF SendOk(s.lines, LinesReceiverAlive(s))
                THEN AfterDataSent(s)
                ELSE [s EXCEPT !.rpc = "done"]]
    /\ UNCHANGED <<file, openOk, readErrAt, pipes, utilVars>>

\* A reader that sends its Error again.
AfterErrorSend_Again == "sendErr"

\* A reader that goes on to its Completed send after an Error.
AfterErrorSend_FallThrough == "complete"

\* Where the thread goes after it sent (or failed to send) an Error: `return`.
AfterErrorSend == "done"

\* let _ = lines_sender.send(ProcessingStatus::Error(..)); return;
ReaderSendError(p) ==
    LET s == pl[p] IN
    /\ s.rpc = "sendErr"
    /\ CanSend(s.lines, LinesReceiverAlive(s))
    /\ pl' = [pl EXCEPT ![p] =
                IF SendOk(s.lines, LinesReceiverAlive(s))
                THEN [s EXCEPT !.lines = Append(s.lines, Error(s.rerr)),
                               !.sentLines = Log(s.sentLines, Error(s.rerr)),
                               !.rpc = AfterErrorSend]
                ELSE [s EXCEPT !.rpc = AfterErrorSend]]
    /\ UNCHANGED <<file, openOk, readErrAt, pipes, utilVars>>

\* let _ = lines_sender.send(ProcessingStatus::Completed);   (end of the thread)
ReaderSendCompleted(p) ==
    LET s == pl[p] IN
    /\ s.rpc = "complete"
    /\ CanSend(s.lines, LinesReceiverAlive(s))
    /\ pl' = [pl EXCEPT ![p] =
                IF SendOk(s.lines, LinesReceiverAlive(s))
                THEN [s EXCEPT !.lines = Append(s.lines, Completed),
                               !.sentLines = Log(s.sentLines, Completed),
                               !.rpc = "done"]
                ELSE [s EXCEPT !.rpc = "done"]]
    /\ UNCHANGED <<file, openOk, readErrAt, pipes, utilVars>>

(***************************************************************************)
(* The parser thread (fs.rs 707-766).                                      *)
(***************************************************************************)
\* Batches the parser decodes after the consumer dropped the iterator are counted.
DecodeCount(s) ==
    IF s.cpc = "dropped" /\ s.decodedAfterDrop < LogCap
    THEN s.decodedAfterDrop + 1 ELSE s.decodedAfterDrop

\* A parser that sends no batch when the decoding gave no result.
OnLinesMessage_SkipEmpty(s, m) ==
    IF m.kind = "Error"
    THEN [s EXCEPT !.cur = Error(m.err), !.ppc = "sendErr"]
    ELSE IF m.kind = "Completed"
    THEN [s EXCEPT !.channel_successful_completed = TRUE]
    ELSE IF Decode(m.body) = <<>>
    THEN [s EXCEPT !.decodedAfterDrop = DecodeCount(s)]
    ELSE [s EXCEPT !.cur = Data(Decode(m.body)), !.ppc = "sendData",
                   !.decodedAfterDrop = DecodeCount(s)]

\* The body of the for_each closure up to its send, for the message m.
OnLinesMessage(s, m) ==
    IF m.kind = "Error"
    THEN \* ProcessingStatus::Error(e) => { let _ = struct_sender.send(Error(e)); }
         [s EXCEPT !.cur = Error(m.err), !.ppc = "sendErr"]
    ELSE IF m.kind = "Completed"
    THEN \* ProcessingStatus::Completed => channel_successful_completed = true
         [s EXCEPT !.channel_successful_completed = TRUE]
    ELSE \* ProcessingStatus::Data(batch) => { decode; send Data(batch) }
         [s EXCEPT !.cur = Data(Decode(m.body)), !.ppc = "sendData",
                   !.decodedAfterDrop = DecodeCount(s)]

\* A parser that ends without its Completed send.
AfterForEach_NoCompleted(s) == "done"

\* A parser that sends Completed whether or not it received one.
AfterForEach_AlwaysCompleted(s) == "sendCompleted"

\* Where the thread goes when lines_receiver.iter() ends.
AfterForEach(s) == IF s.channel_successful_completed THEN "sendCompleted" ELSE "done"

\* lines_receiver.iter().for_each(|batch| match batch { .. }): the next message,
\* or the end of the iteration when the channel is empty and its sender is gone.
\* A parser whose iteration ends as soon as it finds the lines channel empty.
ParserRecv_EndsOnEmpty(p) ==
    LET s == pl[p] IN
    /\ s.ppc = "recv"
    /\ \/ /\ s.lines # <<>>
          /\ pl' = [pl EXCEPT ![p] =
                      OnLinesMessage([s EXCEPT !.lines = Tail(s.lines)], Head(s.lines))]
       \/ /\ s.lines = <<>>
          /\ pl' = [pl EXCEPT ![p] = [s EXCEPT !.ppc = AfterForEach(s)]]
    /\ UNCHANGED <<file, openOk, readErrAt, pipes, utilVars>>

\* A parser whose receive does not see that the reader dropped its sender.
ParserRecv_NoHangup(p) ==
    LET s == pl[p] IN
    /\ s.ppc = "recv"
    /\ s.lines # <<>>
    /\ pl' = [pl EXCEPT ![p] =
                OnLinesMessage([s EXCEPT !.lines = Tail(s.lines)], Head(s.lines))]
    /\ UNCHANGED <<file, openOk, readErrAt, pipes, utilVars>>

ParserRecv(p) ==
    LET s == pl[p] IN
    /\ s.ppc = "recv"
    /\ \/ /\ s.lines # <<>>
          /\ pl' = [pl EXCEPT ![p] =
                      OnLinesMessage([s EXCEPT !.lines = Tail(s.lines)], Head(s.lines))]
       \/ /\ s.lines = <<>>
          /\ ~LinesSenderAlive(s)
          /\ pl' = [pl EXCEPT ![p] = [s EXCEPT !.ppc = AfterForEach(s)]]
    /\ UNCHANGED <<file, openOk, readErrAt, pipes, utilVars>>

\* The parser thread panics while it decodes a batch that holds something to
\* decode (T's Deserialize impl is the caller's code; it is not called for a
\* batch with no text): the thread unwinds and drops lines_receiver, with the
\* messages still in the channel, and struct_sender.
ParserPanic(p) ==
    LET s == pl[p] IN
    /\ s.ppc = "recv"
    /\ s.lines # <<>>
    /\ Head(s.lines).kind = "Data"
    /\ Decode(Head(s.lines).body) # <<>>
    /\ pl' = [pl EXCEPT ![p] = [s EXCEPT !.ppc = "done", !.lines = <<>>]]
    /\ UNCHANGED <<file, openOk, readErrAt, pipes, utilVars>>

\* A parser that ends after it passed an Error on.
ParserSendError_Stop(p) ==
    LET s == pl[p] IN
    /\ s.ppc = "sendErr"
    /\ CanSend(s.struct, StructReceiverAlive(s))
    /\ pl' = [pl EXCEPT ![p] =
                IF SendOk(s.struct, StructReceiverAlive(s))
                THEN [s EXCEPT !.struct = Append(s.struct, s.cur),
                               !.sentStruct = Log(s.sentStruct, s.cur),
                               !.ppc = "done"]
                ELSE [s EXCEPT !.ppc = "done"]]
    /\ UNCHANGED <<file, openOk, readErrAt, pipes, utilVars>>

\* let _ = struct_sender.send(ProcessingStatus::Error(e));   then the next message
ParserSendError(p) ==
    LET s == pl[p] IN
    /\ s.ppc = "sendErr"
    /\ CanSend(s.struct, StructReceiverAlive(s))
    /\ pl' = [pl EXCEPT ![p] =
                IF SendOk(s.struct, StructReceiverAlive(s))
                THEN [s EXCEPT !.struct = Append(s.struct, s.cur),
                               !.sentStruct = Log(s.sentStruct, s.cur),
                               !.ppc = "recv"]
                ELSE [s EXCEPT !.ppc = "recv"]]
    /\ UNCHANGED <<file, openOk, readErrAt, pipes, utilVars>>

\* Where the thread goes when struct_sender.send(Data(batch)) failed: the
\* `return` is the closure's, so for_each goes on with the next message.
AfterDataSendFailed == "recv"

\* if struct_sender.send(ProcessingStatus::Data(batch)).is_err() { return; }
ParserSendData(p) ==
    LET s == pl[p] IN
    /\ s.ppc = "sendData"
    /\ CanSend(s.struct, StructReceiverAlive(s))
    /\ pl' = [pl EXCEPT ![p] =
                IF SendOk(s.struct, StructReceiverAlive(s))
                THEN [s EXCEPT !.struct = Append(s.struct, s.cur),
                               !.sentStruct = Log(s.sentStruct, s.cur),
                               !.ppc = "recv"]
                ELSE [s EXCEPT !.ppc = AfterDataSendFailed]]
    /\ UNCHANGED <<file, openOk, readErrAt, pipes, utilVars>>

\* if channel_successful_completed { if struct_sender.send(Completed).is_err() { return; } }
ParserSendCompleted(p) ==
    LET s == pl[p] IN
    /\ s.ppc = "sendCompleted"
    /\ CanSend(s.struct, StructReceiverAlive(s))
    /\ pl' = [pl EXCEPT ![p] =
                IF SendOk(s.struct, StructReceiverAlive(s))
                THEN [s EXCEPT !.struct = Append(s.struct, Completed),
                               !.sentStruct = Log(s.sentStruct, Completed),
                               !.ppc = "done"]
                ELSE [s EXCEPT !.ppc = "done"]]
    /\ UNCHANGED <<file, openOk, readErrAt, pipes, utilVars>>


(***************************************************************************)
(* The consumer and MtJsonl::next (fs.rs 576-603).                         *)
(***************************************************************************)
\* next() returns r to the consumer.
Return(s, r) ==
    [s EXCEPT !.cpc = "idle",
              !.lastRet = r,
              !.out = IF Len(s.out) < OutCap THEN Append(s.out, r) ELSE s.out]

\* An iterator that ends with None whether or not it saw Completed.
OnExhausted_AlwaysNone(s) == None

\* An iterator that ends with None once and reports NotCompleted when it is
\* called again.
OnExhausted_NoneOnce(s) == IF s.did_complete /\ s.lastRet # None THEN None ELSE NotCompleted

\* return if self.did_complete { None } else { Some(Err(MtJsonlError::NotCompleted)) };
OnExhausted(s) == IF s.did_complete THEN None ELSE NotCompleted

\* else if let Some(state) = self.iter.next() { match state { .. } continue; }
OnStructMessage(s, m) ==
    IF m.kind = "Data"
    THEN \* ProcessingStatus::Data(data) => self.tmp_state = data.into_iter()
         [s EXCEPT !.tmp_state = m.body, !.inflight = s.inflight - 1]
    ELSE IF m.kind = "Completed"
    THEN \* ProcessingStatus::Completed => self.did_complete = true
         [s EXCEPT !.did_complete = TRUE]
    ELSE \* ProcessingStatus::Error(err) => return Some(Err(err))
         Return(s, m.err)

\* The consumer calls next().
ConsumerCall(p) ==
    LET s == pl[p] IN
    /\ s.cpc = "idle"
    /\ pl' = [pl EXCEPT ![p] = [s EXCEPT !.cpc = "next"]]
    /\ UNCHANGED <<file, openOk, readErrAt, pipes, utilVars>>

\* An iterator that may receive from the channel while its sub-batch still has
\* unread items.
ConsumerNext_RecvFirst(p) ==
    LET s == pl[p] IN
    /\ s.cpc = "next"
    /\ \/ /\ s.tmp_state # <<>>
          /\ pl' = [pl EXCEPT ![p] =
                      Return([s EXCEPT !.tmp_state = Tail(s.tmp_state)], Head(s.tmp_state))]
       \/ /\ s.struct # <<>>
          /\ pl' = [pl EXCEPT ![p] =
                      OnStructMessage([s EXCEPT !.struct = Tail(s.struct)], Head(s.struct))]
       \/ /\ s.tmp_state = <<>>
          /\ s.struct = <<>>
          /\ ~StructSenderAlive(s)
          /\ pl' = [pl EXCEPT ![p] = Return(s, OnExhausted(s))]
    /\ UNCHANGED <<file, openOk, readErrAt, pipes, utilVars>>

\* One iteration of the loop of next(); self.iter.next() blocks while the
\* channel is empty and the parser holds its sender.
ConsumerNext(p) ==
    LET s == pl[p] IN
    /\ s.cpc = "next"
    /\ \/ /\ s.tmp_state # <<>>
          /\ pl' = [pl EXCEPT ![p] =
                      Return([s EXCEPT !.tmp_state = Tail(s.tmp_state)], Head(s.tmp_state))]
       \/ /\ s.tmp_state = <<>>
          /\ s.struct # <<>>
          /\ pl' = [pl EXCEPT ![p] =
                      OnStructMessage([s EXCEPT !.struct = Tail(s.struct)], Head(s.struct))]
       \/ /\ s.tmp_state = <<>>
          /\ s.struct = <<>>
          /\ ~StructSenderAlive(s)
          /\ pl' = [pl EXCEPT ![p] = Return(s, OnExhausted(s))]
    /\ UNCHANGED <<file, openOk, readErrAt, pipes, utilVars>>

\* The consumer drops the MtJsonl between two calls of next(): struct_receiver
\* is dropped and with it the messages still in the channel.
ConsumerDrop(p) ==
    LET s == pl[p] IN
    /\ s.cpc = "idle"
    /\ pl' = [pl EXCEPT ![p] = [s EXCEPT !.cpc = "dropped", !.struct = <<>>,
                                         !.tmp_state = <<>>, !.inflight = 0]]
    /\ UNCHANGED <<file, openOk, readErrAt, pipes, utilVars>>

(***************************************************************************)
(* Specifications.                                                         *)
(***************************************************************************)
Reader(p) ==
    \/ ReaderOpen(p)
    \/ ReaderReadLine(p)
    \/ ReaderSendData(p)
    \/ ReaderSendError(p)
    \/ ReaderSendCompleted(p)

Parser(p) ==
    \/ ParserRecv(p)
    \/ ParserSendError(p)
    \/ ParserSendData(p)
    \/ ParserSendCompleted(p)

Consumer(p) ==
    \/ ConsumerCall(p)
    \/ ConsumerNext(p)

Next ==
    \E p \in pipes :
        \/ Reader(p)
        \/ Parser(p)
        \/ Consumer(p)
        \/ ConsumerDrop(p)

\* One pipeline, every interleaving of its reader, its parser and its consumer.
Spec == Init /\ [][Next]_vars

\* The steps of pipelines whose consumers hold their iterators.
NextPulling ==
    \E p \in pipes :
        \/ Reader(p)
        \/ Parser(p)
        \/ Consumer(p)

\* The lines of the files two pipelines are compared on: a valid value and
\* a text that is not JSON.
PairLineKinds == { <<"[", "]">>, <<"x">> }

\* Two pipelines started on the same file with the same batchsize >= 1, each
\* consumer holding its iterator.
PairInit ==
    /\ InitWith(SeqsUpTo(PairLineKinds, PairMaxLines), {1, 2})
    /\ pl[1].batchsize >= 1
    /\ pl[1].batchsize = pl[2].batchsize

PairSpec == PairInit /\ [][NextPulling]_vars

\* Two pipelines started on the same file with different batchsizes >= 1
\* (the smaller one first), each consumer holding its iterator.
BatchPairInit ==
    /\ InitWith(SeqsUpTo(PairLineKinds, PairMaxLines), {1, 2})
    /\ pl[1].batchsize >= 1
    /\ pl[1].batchsize < pl[2].batchsize

BatchPairSpec == BatchPairInit /\ [][NextPulling]_vars

\* One pipeline over a file whose lines are a valid value or a text that is
\* not JSON, every interleaving of its reader, its parser and its consumer:
\* for the statements about the messages of the two channels, which do not
\* depend on what the values are.
ProtocolInit == InitWith(SeqsUpTo(PairLineKinds, MaxLines), {1})

ProtocolSpec == ProtocolInit /\ [][Next]_vars

\* One pipeline over a file whose lines all hold one valid value.
ValidLineKinds == { <<"[", "]">>, <<"[", "[", "]", "]">> }

ValidFileSpec == InitWith(SeqsUpTo(ValidLineKinds, MaxLines), {1}) /\ [][Next]_vars

\* One pipeline whose parser thread may panic in the decoding of a batch, the
\* consumer holding its iterator.
NextCrash ==
    \E p \in pipes :
        \/ Reader(p)
        \/ Parser(p)
        \/ ParserPanic(p)
        \/ Consumer(p)

CrashSpec == ProtocolInit /\ [][NextCrash]_vars

\* Every step of one pipeline: the consumer may drop the iterator and the
\* parser thread may panic.
NextCrashDrop ==
    \E p \in pipes :
        \/ Reader(p)
        \/ Parser(p)
        \/ ParserPanic(p)
        \/ Consumer(p)
        \/ ConsumerDrop(p)

CrashDropSpec == ProtocolInit /\ [][NextCrashDrop]_vars

\* One pipeline whose threads are scheduled whenever they can run and whose
\* consumer holds the iterator and keeps pulling.
Fairness ==
    \A p \in {1} : WF_vars(Reader(p)) /\ WF_vars(Parser(p)) /\ WF_vars(Consumer(p))

FairSpec == Init /\ [][NextPulling]_vars /\ Fairness

\* The two threads are scheduled whenever they can run; the consumer pulls,
\* pauses or drops the iterator as it likes.
ThreadFairness ==
    \A p \in {1} : WF_vars(Reader(p)) /\ WF_vars(Parser(p))

DropFairSpec == ProtocolInit /\ [][Next]_vars /\ ThreadFairness

\* One pipeline over a file of valid values and texts that are not JSON, its
\* threads scheduled whenever they can run, its consumer pulling for ever.
FairProtocolSpec == ProtocolInit /\ [][NextPulling]_vars /\ Fairness

(***************************************************************************)
(* Min<T> and Max<T> (src/src/minmax.rs), for a bounded integer type T     *)
(* with the values MinValue..MaxValue.                                     *)
(***************************************************************************)
MaxValue == 2                  \* T::max_value()
MinValue == -MaxValue - 1      \* T::min_value()
Values   == MinValue..MaxValue

\* Option<T>
NoValue == [some |-> FALSE, v |-> 0]
Some(v) == [some |-> TRUE, v |-> v]

\* Ord::min and Ord::max of T
T_min(v1, v2) == IF v1 <= v2 THEN v1 ELSE v2
T_max(v1, v2) == IF v2 >= v1 THEN v2 ELSE v1

\* Min::new() / Min::default(), Min::with_initial(initial), Min::from(value)
Min_new                == [value |-> NoValue]
Min_with_initial(init) == [value |-> Some(init)]
Min_from(value)        == Min_with_initial(value)

Min_get_min(self) == self.value

\* self.get_min().unwrap_or_else(T::max_value)
Min_get_min_extreme(self) ==
    IF Min_get_min(self).some THEN Min_get_min(self).v ELSE MaxValue

\* An update that takes the new value whenever one is given.
Min_update_Replace(self, value) ==
    IF ~self.value.some /\ ~value.value.some THEN [value |-> NoValue]
    ELSE IF ~value.value.some THEN [value |-> Some(self.value.v)]
    ELSE [value |-> Some(value.value.v)]

\* match (self.value, value.into().value) { .. }; value is the Min<T> that
\* value.into() gave.
Min_update(self, value) ==
    IF ~self.value.some /\ ~value.value.some
    THEN [value |-> NoValue]                                  \* (None, None)
    ELSE IF ~value.value.some
    THEN [value |-> Some(self.value.v)]                       \* (Some(v), None)
    ELSE IF ~self.value.some
    THEN [value |-> Some(value.value.v)]                      \* (None, Some(v))
    ELSE [value |-> Some(T_min(self.value.v, value.value.v))] \* (Some(v1), Some(v2))

\* Max::new() / Max::default(), Max::with_initial(initial), Max::from(value)
Max_new                == [value |-> NoValue]
Max_with_initial(init) == [value |-> Some(init)]
Max_from(value)        == Max_with_initial(value)

Max_get_max(self) == self.value

\* self.get_max().unwrap_or_else(T::min_value)
Max_get_max_extreme(self) ==
    IF Max_get_max(self).some THEN Max_get_max(self).v ELSE MinValue

Max_update(self, value) ==
    IF ~self.value.some /\ ~value.value.some
    THEN [value |-> NoValue]
    ELSE IF ~value.value.some
    THEN [value |-> Some(self.value.v)]
    ELSE IF ~self.value.some
    THEN [value |-> Some(value.value.v)]
    ELSE [value |-> Some(T_max(self.value.v, value.value.v))]

\* What update can be called with: a T (through From<T>) or a Min<T>, which
\* is empty or holds a value.
MinArgs == { Min_new } \cup { Min_from(v) : v \in Values }
MaxArgs == { Max_new } \cup { Max_from(v) : v \in Values }

\* The values an Option<T> holds.
Held(opt) == IF opt.some THEN { opt.v } ELSE {}

\* No pipeline is started.
NoPipelines ==
    /\ file = <<>> /\ openOk = FALSE /\ readErrAt = 0
    /\ pipes = {} /\ pl = <<>>

\* A Min and a Max, each new or with an initial value; minGiven and maxGiven
\* are the values each was given so far.
MinMaxInit ==
    /\ NoPipelines
    /\ \E a \in MinArgs, b \in MaxArgs :
          mm = [min |-> a, minGiven |-> Held(a.value),
                max |-> b, maxGiven |-> Held(b.value)]
    /\ conv = Unused /\ rd = Unused

\* m.update(value) on the Min
MinUpdate ==
    /\ \E a \in MinArgs :
          mm' = [mm EXCEPT !.min = Min_update(mm.min, a),
                           !.minGiven = mm.minGiven \cup Held(a.value)]
    /\ UNCHANGED <<file, openOk, readErrAt, pipes, pl, conv, rd>>

\* m.update(value) on the Max
MaxUpdate ==
    /\ \E b \in MaxArgs :
          mm' = [mm EXCEPT !.max = Max_update(mm.max, b),
                           !.maxGiven = mm.maxGiven \cup Held(b.value)]
    /\ UNCHANGED <<file, openOk, readErrAt, pipes, pl, conv, rd>>

MinMaxNext == MinUpdate \/ MaxUpdate

\* Any sequence of update calls on a Min and on a Max.
MinMaxSpec == MinMaxInit /\ [][MinMaxNext]_vars

(***************************************************************************)
(* Compression and its conversions into the levels of the codecs           *)
(* (fs.rs 226-325).  bzip2::Compression and flate2::Compression are        *)
(* wrappers of a level: new(level), fast() = new(1), default() = new(6),   *)
(* best() = new(9).                                                        *)
(***************************************************************************)
U8 == 0..255

\* enum Compression { Fastest, Default, Best, Numeric(u8) }
Fastest    == [variant |-> "Fastest", n |-> 0]
Default    == [variant |-> "Default", n |-> 0]
Best       == [variant |-> "Best", n |-> 0]
Numeric(n) == [variant |-> "Numeric", n |-> n]
Compressions == { Fastest, Default, Best } \cup { Numeric(n) : n \in U8 }

\* fn clamp<T: PartialOrd>(input: T, min: T, max: T) -> T
clamp(input, min, max) ==
    IF input < min THEN min
    ELSE IF input > max THEN max
    ELSE input

BzipCompression_new(level) == [codec |-> "bzip2", level |-> level]
BzipCompression_fast       == BzipCompression_new(1)
BzipCompression_default    == BzipCompression_new(6)
BzipCompression_best       == BzipCompression_new(9)

FlateCompression_new(level) == [codec |-> "gzip", level |-> level]
FlateCompression_fast       == FlateCompression_new(1)
FlateCompression_default    == FlateCompression_new(6)
FlateCompression_best       == FlateCompression_new(9)

XzCompression(level) == [codec |-> "xz", level |-> level]

\* impl Into<bzip2::Compression> for Compression
IntoBzip(self) ==
    IF self.variant = "Fastest" THEN BzipCompression_fast
    ELSE IF self.variant = "Default" THEN BzipCompression_default
    ELSE IF self.variant = "Best" THEN BzipCompression_best
    ELSE BzipCompression_new(clamp(self.n, 0, 9))

\* impl Into<flate2::Compression> for Compression
IntoFlate(self) ==
    IF self.variant = "Fastest" THEN FlateCompression_fast
    ELSE IF self.variant = "Default" THEN FlateCompression_default
    ELSE IF self.variant = "Best" THEN FlateCompression_best
    ELSE FlateCompression_new(clamp(self.n, 0, 9))

\* impl Into<XzCompression> for Compression
IntoXz(self) ==
    IF self.variant = "Fastest" THEN XzCompression(0)
    ELSE IF self.variant = "Default" THEN XzCompression(6)
    ELSE IF self.variant = "Best" THEN XzCompression(9)
    ELSE XzCompression(clamp(self.n, 0, 9))

\* A Compression value that is about to be converted for one of the codecs.
ConvInit ==
    /\ NoPipelines
    /\ mm = Unused /\ rd = Unused
    /\ \E c \in Compressions, codec \in { "bzip2", "gzip", "xz" } :
          conv = [self |-> c, codec |-> codec, pc |-> "call", out |-> Unused]

ConvertBzip ==
    /\ conv.pc = "call" /\ conv.codec = "bzip2"
    /\ conv' = [conv EXCEPT !.pc = "done", !.out = IntoBzip(conv.self)]
    /\ UNCHANGED <<file, openOk, readErrAt, pipes, pl, mm, rd>>

ConvertFlate ==
    /\ conv.pc = "call" /\ conv.codec = "gzip"
    /\ conv' = [conv EXCEPT !.pc = "done", !.out = IntoFlate(conv.self)]
    /\ UNCHANGED <<file, openOk, readErrAt, pipes, pl, mm, rd>>

ConvertXz ==
    /\ conv.pc = "call" /\ conv.codec = "xz"
    /\ conv' = [conv EXCEPT !.pc = "done", !.out = IntoXz(conv.self)]
    /\ UNCHANGED <<file, openOk, readErrAt, pipes, pl, mm, rd>>

ConvNext == ConvertBzip \/ ConvertFlate \/ ConvertXz

\* One conversion of any Compression value for any codec.
ConvSpec == ConvInit /\ [][ConvNext]_vars

(***************************************************************************)
(* fs::read_to_string(path) through file_open_read (fs.rs 112-201,         *)
(* 788-793).  A path names a regular file, a character device such as      *)
(* /dev/null, a directory, or nothing.  The content of a file is a         *)
(* sequence of bytes: "a", the newline, and "FF", a byte that no UTF-8     *)
(* text holds.  Files are shorter than the six magic bytes, so the         *)
(* detection of the archive types reads none and takes the file as         *)
(* plaintext.                                                              *)
(***************************************************************************)
MaxBytes == 3        \* bytes of a file, RtsSpec

\* let mut buffer = [0; 6];
MagicLen == 6

Bytes == { "a", NL, "FF" }

PathKinds == { "regular", "chardev", "directory", "missing" }

\* Path::is_file: the path exists and is a regular file.
is_file(kind) == kind = "regular"

NotAFileError == [tag |-> "NotAFileError", val |-> 0]   \* "'{}' is not a file."
OpenError     == [tag |-> "IoError", val |-> 3]         \* "Could not open file {}"
InvalidData   == [tag |-> "IoError", val |-> 4]         \* stream did not contain valid UTF-8

\* The magic bytes do_file_open_read looks at: the first six bytes, or the
\* zeroes it resets the buffer to when read_exact fails on a shorter file.
MagicOf(content) ==
    IF Len(content) >= MagicLen
    THEN SubSeq(content, 1, MagicLen)
    ELSE [i \in 1..MagicLen |-> "00"]

\* do_file_open_read(file, None): the error, or the reader over the content.
do_file_open_read(path) ==
    IF ~is_file(path.kind)
    THEN [ok |-> FALSE, err |-> NotAFileError]
    ELSE IF ~path.openable
    THEN [ok |-> FALSE, err |-> OpenError]
    ELSE [ok |-> TRUE, magic |-> MagicOf(path.content)]

\* A path: what it names, its bytes, and whether open(2) on it succeeds.  A
\* character device is /dev/null: it can be opened and reads as empty.
Paths ==
    { [kind |-> "regular", content |-> c, openable |-> o] :
        c \in SeqsUpTo(Bytes, MaxBytes), o \in BOOLEAN }
    \cup { [kind |-> "chardev", content |-> <<>>, openable |-> TRUE],
            [kind |-> "directory", content |-> <<>>, openable |-> TRUE],
            [kind |-> "missing", content |-> <<>>, openable |-> FALSE] }

\* One call of fs::read_to_string(path).
RtsInit ==
    /\ NoPipelines
    /\ mm = Unused /\ conv = Unused
    /\ \E path \in Paths :
          rd = [path |-> path, pc |-> "call", pos |-> 0, buffer |-> <<>>,
                result |-> NoResult]

\* let mut reader = file_open_read(path.as_ref())?;
RtsOpen ==
    /\ rd.pc = "call"
    /\ LET r == do_file_open_read(rd.path) IN
         rd' = IF r.ok
               THEN [rd EXCEPT !.pc = "read"]
               ELSE [rd EXCEPT !.pc = "returned", !.result = r.err]
    /\ UNCHANGED <<file, openOk, readErrAt, pipes, pl, mm, conv>>

\* reader.read_to_string(&mut buffer)?: one more byte of the file
RtsReadByte ==
    /\ rd.pc = "read"
    /\ rd.pos < Len(rd.path.content)
    /\ rd' = [rd EXCEPT !.pos = rd.pos + 1,
                        !.buffer = Append(rd.buffer, rd.path.content[rd.pos + 1])]
    /\ UNCHANGED <<file, openOk, readErrAt, pipes, pl, mm, conv>>

\* reader.read_to_string(&mut buffer)?; Ok(buffer): the end of the file
RtsReturn ==
    /\ rd.pc = "read"
    /\ rd.pos = Len(rd.path.content)
    /\ rd' = [rd EXCEPT !.pc = "returned",
                        !.result = IF \E i \in 1..Len(rd.buffer) : rd.buffer[i] = "FF"
                                   THEN InvalidData
                                   ELSE Ok(rd.buffer)]
    /\ UNCHANGED <<file, openOk, readErrAt, pipes, pl, mm, conv>>

RtsNext == RtsOpen \/ RtsReadByte \/ RtsReturn

RtsSpec == RtsInit /\ [][RtsNext]_vars

(***************************************************************************)
(* Properties.                                                             *)
(***************************************************************************)
MinOf(a, b) == IF a <= b THEN a ELSE b

\* The file can be opened and read to its end.
Readable == openOk /\ readErrAt = 0

\* A line that holds exactly one JSON value, and that value.
ValidLine(line) ==
    LET d == Decode(LineText(line)) IN Len(d) = 1 /\ d[1].tag = "Ok"
LineItem(line) == Decode(LineText(line))[1]
AllLinesValid == \A i \in 1..Len(file) : ValidLine(file[i])

\* The Ok items of a sequence of results, in order.
RECURSIVE OkItems(_)
OkItems(rs) ==
    IF rs = <<>> THEN <<>>
    ELSE IF Head(rs).tag = "Ok" THEN <<Head(rs)>> \o OkItems(Tail(rs))
    ELSE OkItems(Tail(rs))

\* The items of the lines of f that hold one JSON value each, in file order.
RECURSIVE ValidItems(_)
ValidItems(f) ==
    IF f = <<>> THEN <<>>
    ELSE IF ValidLine(Head(f)) THEN <<LineItem(Head(f))>> \o ValidItems(Tail(f))
    ELSE ValidItems(Tail(f))

HasTag(rs, tag) == \E k \in 1..Len(rs) : rs[k].tag = tag
HasKind(log, kind) == \E k \in 1..Len(log) : log[k].kind = kind

\* C1 (as stated): once next() has returned Err(NotCompleted), every later
\* call of next() returns None: NotCompleted is yielded exactly once.
C1_NotCompletedOnce ==
    \A p \in pipes :
        \A k \in 2..Len(pl[p].out) :
            pl[p].out[k - 1] = NotCompleted => pl[p].out[k] = None

\* C2 (as stated): for a path that cannot be opened the first pull yields
\* Err(IoError) and the second pull yields None.
C2_OpenFailureThenNone ==
    \A p \in pipes :
        ~openOk =>
            /\ Len(pl[p].out) >= 1 => pl[p].out[1].tag = "IoError"
            /\ Len(pl[p].out) >= 2 => pl[p].out[2] = None

\* C2 (amended): for a path that cannot be opened the iterator yields exactly
\* one Err(IoError), on the first pull, and Err(NotCompleted) on the second pull.
C2_OpenFailureThenNotCompleted ==
    \A p \in pipes :
        ~openOk =>
            /\ Len(pl[p].out) >= 1 => pl[p].out[1] = IoErrorOpen
            /\ Len(pl[p].out) >= 2 => pl[p].out[2] = NotCompleted
            /\ \A k \in 2..Len(pl[p].out) : pl[p].out[k].tag # "IoError"

C2_Witness ==
    ~openOk /\ Len(pl[1].out) >= 2 /\ pl[1].batchsize >= 1

\* C3: for a readable file whose lines are all valid JSON values and a
\* batchsize >= 1, the k-th pull yields Ok of the k-th line's value, and every
\* pull after the last line yields None, in every interleaving.
C3_OneOkPerLineInOrder ==
    \A p \in pipes :
        (Readable /\ AllLinesValid /\ pl[p].batchsize >= 1) =>
            \A k \in 1..Len(pl[p].out) :
                pl[p].out[k] = IF k <= Len(file) THEN LineItem(file[k]) ELSE None

C3_Witness ==
    /\ Readable /\ AllLinesValid
    /\ Len(file) >= 3 /\ file[1] # file[2]
    /\ pl[1].batchsize = 2
    /\ Len(pl[1].out) = Len(file) + 1

\* C4 (as stated): two pipelines over the same readable file, whatever their
\* batchsizes >= 1, yield the same items in the same order.
C4_BatchsizeTransparent ==
    Readable =>
        \A k \in 1..MinOf(Len(pl[1].out), Len(pl[2].out)) :
            pl[1].out[k] = pl[2].out[k]

\* C5 (as stated): when the stream of a readable file has ended, every line
\* that holds a valid JSON value was yielded as Ok, in file order, whatever
\* lines that are not JSON stand before it, and no NotCompleted was yielded.
\* (Files whose lines are each a valid value or the text "x".)
C5_ParsingErrorIsLocal ==
    \A p \in pipes :
        ( /\ Readable /\ pl[p].batchsize >= 1
          /\ \A i \in 1..Len(file) : ValidLine(file[i]) \/ file[i] = <<"x">>
          /\ pl[p].lastRet = None ) =>
            /\ OkItems(pl[p].out) = ValidItems(file)
            /\ ~HasTag(pl[p].out, "NotCompleted")

\* C6: for a readable zero-byte file and a batchsize >= 1 every pull, the
\* first one included, returns None.
C6_EmptyFileYieldsNothing ==
    \A p \in pipes :
        (Readable /\ file = <<>> /\ pl[p].batchsize >= 1) =>
            \A k \in 1..Len(pl[p].out) : pl[p].out[k] = None

C6_Witness ==
    /\ Readable /\ file = <<>> /\ pl[1].batchsize >= 1
    /\ Len(pl[1].out) >= 2 /\ pl[1].did_complete

\* C7 (as stated): after an IoError item no Ok item is yielded, and a consumer
\* that keeps pulling eventually receives None.
C7_IoErrorThenEventuallyNone ==
    /\ [](\A k \in 1..Len(pl[1].out) : \A j \in 1..Len(pl[1].out) :
            (k < j /\ pl[1].out[k].tag = "IoError") => pl[1].out[j].tag # "Ok")
    /\ (HasTag(pl[1].out, "IoError") ~> (pl[1].lastRet = None))

\* C8: two pipelines over the same file with the same batchsize yield the
\* same items in the same order, in every interleaving of their threads.
C8_SameFileSameItems ==
    pl[1].batchsize = pl[2].batchsize =>
        /\ \A k \in 1..MinOf(Len(pl[1].out), Len(pl[2].out)) :
                pl[1].out[k] = pl[2].out[k]
        /\ (Len(pl[1].out) = OutCap /\ Len(pl[2].out) = OutCap) =>
                pl[1].lastRet = pl[2].lastRet

\* Both pipelines have yielded items, and their threads are at different places.
C8_Witness ==
    /\ pl[1].batchsize = pl[2].batchsize
    /\ Len(file) = 2
    /\ Len(pl[1].out) >= 2 /\ Len(pl[2].out) >= 2
    /\ pl[1].rpc # pl[2].rpc

\* C9 (as stated): with a batchsize >= 1, after the consumer dropped the
\* iterator the parser ends at its next send, so it decodes at most the one
\* batch in flight, however many lines of the file remain.
C9_CancellationBounded ==
    \A p \in pipes : pl[p].batchsize >= 1 => pl[p].decodedAfterDrop <= 1

\* The kinds of the messages of a log.
CompletedIsLastAndNoError(log) ==
    /\ \A i \in 1..Len(log) : log[i].kind = "Completed" => i = Len(log)
    /\ \A i \in 1..Len(log) : \A j \in 1..Len(log) :
            ~(log[i].kind = "Error" /\ log[j].kind = "Completed")

\* C10: on each channel at most one Completed is sent, nothing is sent after
\* it, and it is not sent on a channel on which an Error was sent.
C10_CompletedProtocol ==
    \A p \in pipes :
        /\ CompletedIsLastAndNoError(pl[p].sentLines)
        /\ CompletedIsLastAndNoError(pl[p].sentStruct)

C10_Witness ==
    /\ Len(pl[1].sentLines) >= 3
    /\ pl[1].sentLines[Len(pl[1].sentLines)].kind = "Completed"
    /\ Len(pl[1].sentStruct) >= 3
    /\ pl[1].sentStruct[Len(pl[1].sentStruct)].kind = "Completed"

\* C11: in every reachable state each of the two channels holds at most 2
\* messages, a sender whose channel is full (receiver alive) cannot take its
\* send step, and the number of Data batches the reader sent and the iterator
\* has not received yet is at most 5, whatever the length of the file and the
\* batchsize.
C11_ChannelsBounded ==
    \A p \in pipes :
        /\ Len(pl[p].lines) <= 2
        /\ Len(pl[p].struct) <= 2
        /\ (Len(pl[p].lines) = 2 /\ LinesReceiverAlive(pl[p])) =>
                ~ENABLED (ReaderSendData(p) \/ ReaderSendError(p) \/ ReaderSendCompleted(p))
        /\ (Len(pl[p].struct) = 2 /\ StructReceiverAlive(pl[p])) =>
                ~ENABLED (ParserSendData(p) \/ ParserSendError(p) \/ ParserSendCompleted(p))
        /\ pl[p].inflight <= 5

\* Both channels are full, the parser holds a decoded batch and waits for
\* room, and the reader holds the next batch and waits for room.
C11_Witness ==
    /\ Len(pl[1].lines) = 2 /\ Len(pl[1].struct) = 2
    /\ pl[1].rpc = "send" /\ pl[1].ppc = "sendData"
    /\ pl[1].cpc # "dropped"
    /\ pl[1].inflight = 5

\* A log of Data messages followed by exactly one Completed.
DataThenOneCompleted(log) ==
    /\ Len(log) >= 2
    /\ log[Len(log)].kind = "Completed"
    /\ \A i \in 1..(Len(log) - 1) : log[i].kind = "Data"

\* C12: for a file that is read to its end without an I/O error and a
\* batchsize >= 1: the reader, when it has ended, has sent exactly one Completed,
\* after its last Data; and when next() has returned None, the parser has sent
\* exactly one Completed after its last Data, did_complete is true, and no
\* NotCompleted was yielded before.
C12_CleanEndCompletes ==
    \A p \in pipes :
        (Readable /\ pl[p].batchsize >= 1) =>
            /\ pl[p].rpc = "done" => DataThenOneCompleted(pl[p].sentLines)
            /\ ~HasTag(pl[p].out, "NotCompleted")
            /\ pl[p].lastRet = None =>
                    /\ pl[p].did_complete
                    /\ pl[p].rpc = "done" /\ pl[p].ppc = "done"
                    /\ DataThenOneCompleted(pl[p].sentStruct)

\* A file of three lines was read in batches of two and pulled to its None.
C12_Witness ==
    /\ Readable /\ Len(file) = 3 /\ pl[1].batchsize = 2
    /\ pl[1].lastRet = None /\ pl[1].cpc = "idle"
    /\ Len(pl[1].sentStruct) = 3

Least(S)    == CHOOSE x \in S : \A y \in S : x <= y
Greatest(S) == CHOOSE x \in S : \A y \in S : x >= y

\* C13: after any sequence of update calls, get_min is None when the Min was
\* given no value and else Some of the least value it was given, and
\* get_min_extreme is that value or T::max_value; get_max is None or Some of
\* the greatest value given, and get_max_extreme is that value or T::min_value.
C13_MinMaxOfSupplied ==
    /\ Min_get_min(mm.min) =
            IF mm.minGiven = {} THEN NoValue ELSE Some(Least(mm.minGiven))
    /\ Min_get_min_extreme(mm.min) =
            IF mm.minGiven = {} THEN MaxValue ELSE Least(mm.minGiven)
    /\ Max_get_max(mm.max) =
            IF mm.maxGiven = {} THEN NoValue ELSE Some(Greatest(mm.maxGiven))
    /\ Max_get_max_extreme(mm.max) =
            IF mm.maxGiven = {} THEN MinValue ELSE Greatest(mm.maxGiven)

\* Both were given several values, and neither holds an extreme of T.
C13_Witness ==
    /\ Cardinality(mm.minGiven) >= 3 /\ Cardinality(mm.maxGiven) >= 3
    /\ mm.min.value.some /\ mm.min.value.v > MinValue
    /\ mm.max.value.some /\ mm.max.value.v < MaxValue
    /\ mm.min.value.v < mm.max.value.v

\* The row of the documented table for Numeric(n), as the preset it names.
TablePreset(n) ==
    IF n <= 3 THEN Fastest
    ELSE IF n <= 6 THEN Default
    ELSE Best

\* C14 (as stated): for bzip2 and gzip, Numeric(n) converts into the level of
\* the preset the documented table names: Fastest for n in 1..3, Default for
\* 4..6, Best for 7..9 and every n > 9; for n = 0, no compression (level 0)
\* for bzip2 and Fastest for gzip.
C14_NumericFollowsTable ==
    (conv.pc = "done" /\ conv.self.variant = "Numeric") =>
        /\ conv.codec = "bzip2" =>
                conv.out = IF conv.self.n = 0 THEN BzipCompression_new(0)
                           ELSE IntoBzip(TablePreset(conv.self.n))
        /\ conv.codec = "gzip" => conv.out = IntoFlate(TablePreset(conv.self.n))

\* C15 (as stated): read_to_string on an existing readable path that is not
\* a regular file, such as the character device /dev/null, returns Ok with
\* empty content.
C15_DevNullReadsEmpty ==
    (rd.pc = "returned" /\ rd.path.kind = "chardev") => rd.result = Ok(<<>>)

EmptyData(m) == m.kind = "Data" /\ m.body = <<>>

\* C16 (as stated): with a batchsize >= 1 the reader sends no empty Data
\* batch, also when it reaches the end of the file with no line accumulated.
C16_NoEmptyData ==
    \A p \in pipes :
        pl[p].batchsize >= 1 =>
            \A i \in 1..Len(pl[p].sentLines) : ~EmptyData(pl[p].sentLines[i])

\* C16 (amended): with a batchsize >= 1 the reader sends an empty Data batch
\* only at the end of a file whose number of lines is a multiple of batchsize
\* (an empty file included), and there it sends exactly one, as its last Data
\* right before Completed.
C16_OneEmptyDataAtEof ==
    \A p \in pipes :
        pl[p].batchsize >= 1 =>
            LET log == pl[p].sentLines IN
            /\ \A i \in 1..Len(log) :
                    EmptyData(log[i]) =>
                        /\ pl[p].is_eof /\ pl[p].pos = Len(file)
                        /\ Len(file) % pl[p].batchsize = 0
                        /\ \A j \in 1..Len(log) : (j # i /\ log[j].kind = "Data") =>
                                (j < i /\ log[j].body # <<>>)
            /\ (pl[p].rpc = "complete" /\ Len(file) % pl[p].batchsize = 0) =>
                    (Len(log) >= 1 /\ EmptyData(log[Len(log)]))
            /\ (pl[p].rpc = "done" /\ pl[p].is_eof /\ Len(file) % pl[p].batchsize = 0) =>
                    (Len(log) >= 2 /\ EmptyData(log[Len(log) - 1])
                        /\ log[Len(log)].kind = "Completed")

\* A file of two lines was read in batches of two: a batch of two lines, an
\* empty batch, Completed.
C16_Witness ==
    /\ Len(file) = 2 /\ pl[1].batchsize = 2 /\ pl[1].rpc = "done"
    /\ Len(pl[1].sentLines) = 3
    /\ LineCount(pl[1].sentLines[1].body) = 2
    /\ EmptyData(pl[1].sentLines[2])
    /\ pl[1].sentLines[3].kind = "Completed"

\* The text of the first n lines of f.
RECURSIVE TextOfLines(_, _)
TextOfLines(f, n) ==
    IF n = 0 THEN <<>> ELSE TextOfLines(f, n - 1) \o LineText(f[n])

\* The bodies of the messages of a log, one after the other.
RECURSIVE Bodies(_)
Bodies(log) ==
    IF log = <<>> THEN <<>> ELSE Head(log).body \o Bodies(Tail(log))

\* C17: with a batchsize >= 1, when the read_line call number k fails, the
\* reader has sent the full batches of the lines before the batch it was
\* accumulating, in file order, and after them it sends Error(IoError) of the
\* read failure and ends: the lines of the unfinished batch and Completed
\* are never sent.
C17_ReadErrorDiscardsBatch ==
    \A p \in pipes :
        (pl[p].batchsize >= 1 /\ readErrAt >= 1 /\ pl[p].rpc \in { "sendErr", "done" }) =>
            LET log   == pl[p].sentLines
                datas == IF pl[p].rpc = "done" THEN SubSeq(log, 1, Len(log) - 1) ELSE log
                full  == pl[p].batchsize * ((readErrAt - 1) \div pl[p].batchsize)
            IN  /\ \A i \in 1..Len(datas) :
                        /\ datas[i].kind = "Data"
                        /\ LineCount(datas[i].body) = pl[p].batchsize
                /\ Bodies(datas) = TextOfLines(file, full)
                /\ pl[p].rpc = "done" =>
                        (Len(log) >= 1 /\ log[Len(log)] = Error(IoErrorRead))

\* The fourth read of a file of three lines failed with one line of the second
\* batch of two accumulated: one batch and the Error were sent, and the
\* consumer got the IoError.
C17_Witness ==
    /\ Len(file) = 3 /\ readErrAt = 4 /\ pl[1].batchsize = 2
    /\ pl[1].rpc = "done" /\ pl[1].pos = 3
    /\ Len(pl[1].sentLines) = 2
    /\ pl[1].lastRet = IoErrorRead

\* C18: the reader sends at most one Error and nothing after it; when the file
\* cannot be opened that Error is the only message it sends; and the iterator
\* yields at most one IoError item.
C18_OneErrorThenNothing ==
    \A p \in pipes :
        LET log == pl[p].sentLines
            out == pl[p].out
        IN  /\ \A i \in 1..Len(log) : log[i].kind = "Error" => i = Len(log)
            /\ ~openOk => (Len(log) <= 1 /\ \A i \in 1..Len(log) : log[i] = Error(IoErrorOpen))
            /\ Cardinality({ k \in 1..Len(out) : out[k].tag = "IoError" }) <= 1

\* The open failed, the reader has ended, and the consumer pulled three times.
C18_Witness ==
    /\ ~openOk /\ pl[1].rpc = "done"
    /\ pl[1].sentLines = <<Error(IoErrorOpen)>>
    /\ Len(pl[1].out) = 3 /\ pl[1].out[1] = IoErrorOpen

\* C19: when the reader's Data send fails because the parser's receiver is
\* gone, the reader ends with that step: it has read no further line and sent
\* nothing, and a reader that has ended reads and sends nothing more.
C19_ReaderEndsOnFailedSend ==
    [][\A p \in pipes :
          /\ (pl[p].rpc = "send" /\ ~LinesReceiverAlive(pl[p]) /\ pl'[p].rpc # "send") =>
                /\ pl'[p].rpc = "done"
                /\ pl'[p].pos = pl[p].pos
                /\ pl'[p].sentLines = pl[p].sentLines
                /\ pl'[p].lines = pl[p].lines
          /\ pl[p].rpc = "done" =>
                /\ pl'[p].rpc = "done"
                /\ pl'[p].pos = pl[p].pos
                /\ pl'[p].sentLines = pl[p].sentLines]_vars

\* The reader ended before the end of the file and without a failed read: its
\* Data send failed after the parser thread was gone.
C19_Witness ==
    /\ openOk /\ readErrAt = 0 /\ pl[1].batchsize = 1
    /\ pl[1].rpc = "done" /\ pl[1].ppc = "done"
    /\ ~pl[1].is_eof /\ pl[1].pos < Len(file)
    /\ \A i \in 1..Len(pl[1].sentLines) : pl[1].sentLines[i].kind = "Data"

\* C20 (as stated): with a batchsize >= 1, when the parser's Data send fails
\* because the iterator's receiver is gone, the parser thread ends with that
\* step, so it receives no further message and decodes no further batch.
C20_ParserEndsOnFailedSend ==
    [][\A p \in pipes :
          ( /\ pl[p].batchsize >= 1
            /\ pl[p].ppc = "sendData" /\ ~StructReceiverAlive(pl[p])
            /\ pl'[p].ppc # "sendData" ) =>
                pl'[p].ppc = "done"]_vars

\* C21: the Error the reader sent as its i-th message is the i-th message the
\* parser sends (after the i - 1 batches before it, nothing else in between);
\* after its send of an Error the parser receives again; and the parser ends
\* only when the reader has ended and the channel is empty.
C21_ErrorPassedThrough ==
    /\ [](\A p \in pipes :
            /\ \A i \in 1..Len(pl[p].sentStruct) :
                    /\ pl[p].sentLines[i].kind = "Error" =>
                            pl[p].sentStruct[i] = pl[p].sentLines[i]
                    /\ pl[p].sentStruct[i].kind = "Error" =>
                            pl[p].sentLines[i] = pl[p].sentStruct[i]
            /\ pl[p].ppc = "done" => (pl[p].rpc = "done" /\ pl[p].lines = <<>>))
    /\ [][\A p \in pipes :
            (pl[p].ppc = "sendErr" /\ pl'[p].ppc # "sendErr") => pl'[p].ppc = "recv"]_vars

\* The third read failed with batchsize 1: the parser sent two result batches
\* and then the Error, and ended only after the channel was closed.
C21_Witness ==
    /\ readErrAt = 3 /\ pl[1].batchsize = 1
    /\ Len(pl[1].sentStruct) = 3
    /\ pl[1].sentStruct[1].kind = "Data" /\ pl[1].sentStruct[2].kind = "Data"
    /\ pl[1].sentStruct[3] = Error(IoErrorRead)
    /\ pl[1].ppc = "done"

LastKind(log) == IF log = <<>> THEN "-" ELSE log[Len(log)].kind

\* C22: the step in which the parser receives Completed sends nothing and
\* only sets channel_successful_completed; a Completed is in the parser's log
\* only when the reader has ended, the input channel is empty and the parser
\* has ended; and a parser that has ended with its receiver alive has sent
\* Completed, as its last message, if and only if it received Completed.
C22_CompletedOnlyAtEnd ==
    /\ [](\A p \in pipes :
            /\ pl[p].channel_successful_completed => HasKind(pl[p].sentLines, "Completed")
            /\ HasKind(pl[p].sentStruct, "Completed") =>
                    /\ pl[p].channel_successful_completed
                    /\ pl[p].rpc = "done" /\ pl[p].lines = <<>> /\ pl[p].ppc = "done"
            /\ (pl[p].ppc = "done" /\ pl[p].cpc # "dropped") =>
                    (LastKind(pl[p].sentStruct) = "Completed"
                        <=> pl[p].channel_successful_completed))
    /\ [][\A p \in pipes :
            (pl[p].ppc = "recv" /\ pl[p].lines # <<>> /\ Head(pl[p].lines).kind = "Completed"
                /\ pl'[p].lines = Tail(pl[p].lines)) =>
                    /\ pl'[p].ppc = "recv"
                    /\ pl'[p].channel_successful_completed
                    /\ pl'[p].struct = pl[p].struct
                    /\ pl'[p].sentStruct = pl[p].sentStruct]_vars

\* A parser that ended without Completed after it sent a batch and an Error.
C22_Witness ==
    /\ pl[1].ppc = "done" /\ pl[1].cpc # "dropped"
    /\ ~pl[1].channel_successful_completed
    /\ Len(pl[1].sentStruct) = 2
    /\ pl[1].sentStruct[1].kind = "Data" /\ pl[1].sentStruct[2].kind = "Error"
    /\ pl[1].lastRet = NotCompleted

\* The number of messages of a kind in a log.
Count(log, kind) == Cardinality({ k \in 1..Len(log) : log[k].kind = kind })

\* C23: with a batchsize >= 1 and the consumer holding the iterator, the i-th
\* message of the parser is a Data exactly when the i-th message of the reader
\* is one, and then it holds the results of decoding that batch, in decoding
\* order; and every batch the parser received was sent as one Data, but for
\* the one it holds for its next send.
C23_OneOutputBatchPerInputBatch ==
    \A p \in pipes :
        (pl[p].batchsize >= 1 /\ pl[p].cpc # "dropped") =>
            LET in   == pl[p].sentLines
                out  == pl[p].sentStruct
                rcvd == SubSeq(in, 1, Len(in) - Len(pl[p].lines))
            IN  /\ \A i \in 1..Len(out) :
                        /\ (out[i].kind = "Data") = (in[i].kind = "Data")
                        /\ out[i].kind = "Data" => out[i].body = Decode(in[i].body)
                /\ Count(out, "Data") + (IF pl[p].ppc = "sendData" THEN 1 ELSE 0)
                        = Count(rcvd, "Data")
                /\ pl[p].ppc = "sendData" =>
                        pl[p].cur = Data(Decode(rcvd[Count(rcvd, "Data")].body))

\* A file of three lines, its second not JSON, was read in batches of two: the
\* parser sent the results of the first batch (a value and an error) and the
\* result of the second batch.
C23_Witness ==
    /\ Readable /\ Len(file) = 3 /\ file[2] = <<"x">> /\ file[1] # file[2] /\ file[3] # file[2]
    /\ pl[1].batchsize = 2 /\ pl[1].cpc # "dropped"
    /\ Count(pl[1].sentStruct, "Data") = 2
    /\ Len(pl[1].sentStruct[1].body) = 2
    /\ Len(pl[1].sentStruct[2].body) = 1

\* The step of pipeline p in which next() takes a message from the channel.
Receives(p) ==
    /\ pl[p].cpc = "next"
    /\ pl[p].struct # <<>>
    /\ pl'[p].struct = Tail(pl[p].struct)

\* C24: next() takes a message from the channel only when its sub-batch has no
\* unread item.  A Data replaces the sub-batch and next() goes on (to yield its
\* first item, or to take the next message when it is empty); a Completed sets
\* did_complete and yields nothing; an Error is returned by that same step.  A
\* call that finds an unread item in the sub-batch returns it and takes no
\* message.
C24_NextProtocol ==
    [][\A p \in pipes :
          /\ Receives(p) => pl[p].tmp_state = <<>>
          /\ (Receives(p) /\ Head(pl[p].struct).kind = "Data") =>
                /\ pl'[p].tmp_state = Head(pl[p].struct).body
                /\ pl'[p].cpc = "next"
                /\ pl'[p].out = pl[p].out
                /\ pl'[p].did_complete = pl[p].did_complete
          /\ (Receives(p) /\ Head(pl[p].struct).kind = "Completed") =>
                /\ pl'[p].did_complete
                /\ pl'[p].cpc = "next"
                /\ pl'[p].out = pl[p].out
                /\ pl'[p].tmp_state = <<>>
          /\ (Receives(p) /\ Head(pl[p].struct).kind = "Error") =>
                /\ pl'[p].cpc = "idle"
                /\ pl'[p].lastRet = Head(pl[p].struct).err
                /\ pl'[p].did_complete = pl[p].did_complete
          /\ (pl[p].cpc = "next" /\ pl[p].tmp_state # <<>> /\ pl'[p].cpc # "next") =>
                /\ pl'[p].cpc = "idle"
                /\ pl'[p].lastRet = Head(pl[p].tmp_state)
                /\ pl'[p].tmp_state = Tail(pl[p].tmp_state)
                /\ pl'[p].struct = pl[p].struct]_vars

\* next() returned the first of the two results of a batch while the next
\* message waits in the channel.
C24_Witness ==
    /\ pl[1].cpc = "idle" /\ pl[1].lastRet.tag = "Ok"
    /\ Len(pl[1].out) = 1
    /\ Len(pl[1].tmp_state) = 1
    /\ pl[1].struct # <<>>

\* C25: every Data batch the reader sent holds at most batchsize lines, and
\* every Data batch other than the last one it sent holds exactly batchsize
\* lines.
C25_BatchSizes ==
    \A p \in pipes :
       \A i \in 1..Len(pl[p].sentLines) :
          pl[p].sentLines[i].kind = "Data" =>
             /\ LineCount(pl[p].sentLines[i].body) <= pl[p].batchsize
             /\ (\E j \in (i + 1)..Len(pl[p].sentLines) : pl[p].sentLines[j].kind = "Data")
                   => LineCount(pl[p].sentLines[i].body) = pl[p].batchsize

\* With batchsize 2 the reader sent a batch of two lines and then a batch of
\* the one line that was left.
C25_Witness ==
    /\ pl[1].batchsize = 2
    /\ Len(pl[1].sentLines) >= 2
    /\ pl[1].sentLines[1].kind = "Data" /\ LineCount(pl[1].sentLines[1].body) = 2
    /\ pl[1].sentLines[2].kind = "Data" /\ LineCount(pl[1].sentLines[2].body) = 1

\* C26: over a finite file with batchsize >= 1, once the consumer dropped the
\* iterator (at whatever point), the reader thread and the parser thread both
\* come to their end.
C26_ThreadsEndAfterDrop ==
    \A p \in {1} :
       (pl[p].cpc = "dropped" /\ pl[p].batchsize >= 1)
          ~> (pl[p].rpc = "done" /\ pl[p].ppc = "done")

\* Both threads ended after a drop that came while lines were still to be
\* read and decoded.
C26_Witness ==
    /\ pl[1].cpc = "dropped" /\ pl[1].batchsize >= 1
    /\ pl[1].rpc = "done" /\ pl[1].ppc = "done"
    /\ pl[1].readAfterDrop >= 1 /\ pl[1].decodedAfterDrop >= 1

\* C27: next() returns None only when did_complete is true; did_complete,
\* once true, stays true; and once next() returned None, every later call
\* returns None.
C27_NoneIsFinal ==
    /\ [](\A p \in pipes : pl[p].lastRet = None => pl[p].did_complete)
    /\ [][\A p \in pipes :
             /\ pl[p].did_complete => pl'[p].did_complete
             /\ pl[p].lastRet = None => pl'[p].lastRet = None]_vars

\* The iterator yielded an item, then None, and None again on the next call.
C27_Witness ==
    /\ pl[1].cpc = "idle" /\ pl[1].did_complete
    /\ Len(pl[1].out) >= 3
    /\ pl[1].out[1].tag = "Ok"
    /\ pl[1].out[Len(pl[1].out) - 1] = None
    /\ pl[1].out[Len(pl[1].out)] = None

\* What holds of pipeline p while its reader runs with batchsize 0 and never
\* reads: the reader has not seen the end of the file and has not come to its
\* Completed send, its Error send or its end; every message on either channel
\* is an empty Data batch; next() has returned nothing.
NeverReads(p) ==
    /\ pl[p].rpc \in {"open", "send"}
    /\ ~pl[p].is_eof
    /\ pl[p].pos = 0
    /\ \A i \in 1..Len(pl[p].sentLines) : pl[p].sentLines[i] = Data(<<>>)
    /\ \A i \in 1..Len(pl[p].sentStruct) : pl[p].sentStruct[i] = Data(<<>>)
    /\ pl[p].out = <<>>
    /\ pl[p].lastRet = NoResult
    /\ ~pl[p].did_complete

\* C28 (amended): with batchsize = 0 and a file that can be opened, the
\* pipeline starts, the reader never detects the end of the file, sends empty
\* Data batches again and again without end and never sends Completed or
\* Error, and the pulling consumer never gets an item and never gets None,
\* even for an empty file.
C28_ZeroBatchsizeNeverEnds ==
    /\ [](\A p \in pipes : (pl[p].batchsize = 0 /\ openOk) => NeverReads(p))
    /\ \A p \in {1} : []<>(pl[p].batchsize = 0 /\ openOk) => []<><<ReaderSendData(p)>>_vars

\* C28 as stated, for every path: with batchsize = 0 the reader sends nothing
\* but empty Data batches and the consumer gets nothing.
C28_ZeroBatchsizeNeverEnds_AnyPath ==
    \A p \in pipes : pl[p].batchsize = 0 => NeverReads(p)

\* With batchsize 0 on an empty file the reader sent three empty batches, the
\* parser passed them on, and the consumer's call to next() received them all
\* and waits for more.
C28_Witness ==
    /\ pl[1].batchsize = 0 /\ openOk /\ file = <<>>
    /\ Len(pl[1].sentLines) >= 3
    /\ Len(pl[1].sentStruct) >= 3
    /\ pl[1].struct = <<>>
    /\ pl[1].cpc = "next"

\* The reader waits in a send on the full lines channel.
ReaderBlocked(p) ==
    /\ pl[p].rpc \in {"send", "sendErr", "complete"}
    /\ ~CanSend(pl[p].lines, LinesReceiverAlive(pl[p]))

\* The parser waits in a receive on the empty lines channel or in a send on
\* the full struct channel.
ParserBlocked(p) ==
    \/ /\ pl[p].ppc = "recv"
       /\ pl[p].lines = <<>>
       /\ LinesSenderAlive(pl[p])
    \/ /\ pl[p].ppc \in {"sendErr", "sendData", "sendCompleted"}
       /\ ~CanSend(pl[p].struct, StructReceiverAlive(pl[p]))

\* next() waits in a receive on the empty struct channel.
ConsumerBlocked(p) ==
    /\ pl[p].cpc = "next"
    /\ pl[p].tmp_state = <<>>
    /\ pl[p].struct = <<>>
    /\ StructSenderAlive(pl[p])

\* C29: over a finite file with batchsize >= 1 and a consumer that keeps
\* pulling, the reader, the parser and the consumer are never all three
\* waiting on a channel; every call to next() returns; and the iterator comes
\* to return None or NotCompleted.
C29_NoDeadlockAndTermination ==
    \A p \in {1} :
       /\ [](pl[p].batchsize >= 1 =>
               ~(ReaderBlocked(p) /\ ParserBlocked(p) /\ ConsumerBlocked(p)))
       /\ (pl[p].batchsize >= 1 /\ pl[p].cpc = "next") ~> (pl[p].cpc = "idle")
       /\ (pl[p].batchsize >= 1) ~> (pl[p].lastRet \in {None, NotCompleted})

\* With batchsize 1 the consumer pulled a three-line file through to None:
\* five messages came down the struct channel, more than it holds at a time.
C29_Witness ==
    /\ pl[1].batchsize = 1 /\ Len(file) = 3
    /\ pl[1].lastRet = None
    /\ Len(pl[1].out) >= 4
    /\ Len(pl[1].sentStruct) >= 5

=============================================================================
